---- MODULE Spec2Model ----
(***************************************************************************)
(* Model of src/repositories.rs: TodoRepositoryForMemory, an in-memory     *)
(* HashMap<i32, Todo> behind Arc<RwLock<..>>, called by concurrent threads. *)
(* Each thread's position is a program counter named after the source line *)
(* it is about to execute (c83 = create, line 83).                         *)
(*                                                                         *)
(* Option<T> is a sequence of length 0 (None) or 1 (Some).                 *)
(* anyhow::Result<T> is a record [ok, err] of two such options.            *)
(* The Vec<Todo> of all() is the bag of its elements: the iteration order  *)
(* of a HashMap is unspecified and the model keeps none.                   *)
(***************************************************************************)
EXTENDS Integers, Sequences, FiniteSets, Bags

\* ---- bounds of the model ----
NumThreads == 2
MaxLen == 2

Threads == 1..NumThreads
Texts   == {"buy milk", "b"}
IdArgs  == 1..MaxLen

VARIABLES
    store,      \* the HashMap<i32, Todo>: a function from its keys to Todos
    wlocked,    \* RwLock: a write guard is alive
    nreaders,   \* RwLock: number of live read guards
    poisoned,   \* RwLock: a thread panicked while it held the write guard
    pc,         \* per thread: the line it is about to execute, or "idle"
    id,         \* per thread: parameter / local `id`
    payload,    \* per thread: parameter `payload`
    todo,       \* per thread: local `todo` (Option: empty before it is built)
    ret,        \* per thread: value being returned (Option: empty until set)
    issued,     \* history: the ids create has returned so far
    created,    \* history: number of creates done while no delete has
                \* succeeded yet (0 once one has)
    deleted,    \* history: ids removed by a successful delete so far
    deletedSince, \* history: ids removed by delete with no create insert since
    lastCreate, \* history: the Todo the latest create returned (Option), emptied
                \* by the next update or delete
    scenario    \* history: how far the latest create, update, delete calls
                \* follow create("buy milk") on an empty store,
                \* update(1, {completed: Some(true)}), delete(1): 0..3

vars == <<store, wlocked, nreaders, poisoned, pc, id, payload, todo, ret,
          issued, created, deleted, deletedSince, lastCreate, scenario>>

\* ---- data model ----
I32Max == 2147483647

\* `as i32` applied to a usize: wraps modulo 2^32 into the signed range
AsI32(n) == IF n <= I32Max THEN n ELSE n - I32Max - I32Max - 2

None == <<>>
Some(v) == <<v>>
IsSome(o) == Len(o) = 1

NotFound(i) == [kind |-> "NotFound", id |-> i]
Ok(v)  == [ok |-> Some(v), err |-> None]
Err(e) == [ok |-> None, err |-> Some(e)]
Unit == "()"

Todo(i, t, c) == [id |-> i, text |-> t, completed |-> c]
\* variant: the Todo carries the record count, not the key it is stored under
Todo_new_len(i, t) == Todo(i - 1, t, FALSE)

\* variant: a new Todo that starts completed
Todo_new_completed(i, t) == Todo(i, t, TRUE)

Todo_new(i, t) == Todo(i, t, FALSE)
CreateTodo(t) == [text |-> t]
UpdateTodo(t, c) == [text |-> t, completed |-> c]
NoPayload == UpdateTodo(None, None)

OptText == {None} \cup {Some(t) : t \in Texts}
OptBool == {None, Some(TRUE), Some(FALSE)}

unwrap_or(o, d) == IF IsSome(o) THEN o[1] ELSE d

\* ---- HashMap operations ----
len(s) == Cardinality(DOMAIN s)
get(s, k) == IF k \in DOMAIN s THEN Some(s[k]) ELSE None
\* variant: the insert drops the other entries
insert_clearing(s, k, v) == [x \in {k} |-> v]

insert(s, k, v) == [x \in (DOMAIN s) \cup {k} |-> IF x = k THEN v ELSE s[x]]
\* variant: the entry stays in the map
remove_keeping(s, k) == s

\* variant: every entry is removed
remove_clearing(s, k) == [x \in {} |-> s[x]]

remove(s, k) == [x \in (DOMAIN s) \ {k} |-> s[x]]
\* values() collected into a Vec: one element per key
\* variant: the entry of the largest key is skipped
values_skipping(s) ==
    LET ks == {k \in DOMAIN s : \E j \in DOMAIN s : j > k}
    IN  [t \in {s[k] : k \in ks} |-> Cardinality({k \in ks : s[k] = t})]

values(s) ==
    [t \in {s[k] : k \in DOMAIN s} |-> Cardinality({k \in DOMAIN s : s[k] = t})]

EmptyStore == [x \in {} |-> Todo_new(0, "b")]

\* ---- construction ----
Init ==
    /\ store = EmptyStore
    /\ wlocked = FALSE
    /\ nreaders = 0
    /\ poisoned = FALSE
    /\ pc = [p \in Threads |-> "idle"]
    /\ id = [p \in Threads |-> 0]
    /\ payload = [p \in Threads |-> NoPayload]
    /\ todo = [p \in Threads |-> None]
    /\ ret = [p \in Threads |-> None]
    /\ issued = {}
    /\ created = 0
    /\ deleted = {}
    /\ deletedSince = {}
    /\ lastCreate = None
    /\ scenario = 0

\* ---- RwLock ----
\* the lines at which a thread holds the write guard, the read guard
WriteCS == {"c83", "c85", "c86", "u98", "u108", "u110", "d113", "d115"}
ReadCS == {"f90", "f91", "a94", "a95"}

\* variant: a writer does not wait for another writer
CanWrite_ignoring_writer == nreaders = 0

\* variant: a writer does not wait for the readers
CanWrite_ignoring_readers == ~wlocked

CanWrite == ~wlocked /\ nreaders = 0
CanRead == ~wlocked

\* lines 73, 76: write()/read() wait for the lock; on a poisoned lock they
\* return Err(PoisonError) and unwrap() panics (write_poisoned, read_poisoned)
\* variant: the poison error is ignored (into_inner instead of unwrap)
write_store_ref_into_inner(p, next) ==
    /\ CanWrite
    /\ wlocked' = TRUE
    /\ pc' = [pc EXCEPT ![p] = next]
    /\ UNCHANGED <<poisoned, scenario, store, nreaders, todo, ret, issued, created, deleted, deletedSince, lastCreate>>

write_store_ref(p, next) ==
    /\ CanWrite
    /\ ~poisoned
    /\ wlocked' = TRUE
    /\ pc' = [pc EXCEPT ![p] = next]
    /\ UNCHANGED <<poisoned, scenario, store, nreaders, todo, ret, issued, created, deleted, deletedSince, lastCreate>>

read_store_ref(p, next) ==
    /\ CanRead
    /\ ~poisoned
    /\ nreaders' = nreaders + 1
    /\ pc' = [pc EXCEPT ![p] = next]
    /\ UNCHANGED <<poisoned, scenario, store, wlocked, todo, ret, issued, created, deleted, deletedSince, lastCreate>>

\* the function returns: its guard is dropped, its locals die
Return(p) ==
    /\ pc' = [pc EXCEPT ![p] = "idle"]
    /\ id' = [id EXCEPT ![p] = 0]
    /\ payload' = [payload EXCEPT ![p] = NoPayload]
    /\ todo' = [todo EXCEPT ![p] = None]
    /\ ret' = [ret EXCEPT ![p] = None]
    /\ UNCHANGED <<poisoned, scenario, store, issued, created, deleted, deletedSince, lastCreate>>

\* variant: the write guard is leaked, the lock stays held after the return
drop_write_leaking(p) == UNCHANGED <<wlocked, nreaders>> /\ Return(p)

drop_write(p) == wlocked' = FALSE /\ UNCHANGED nreaders /\ Return(p)
drop_read(p) == nreaders' = nreaders - 1 /\ UNCHANGED wlocked /\ Return(p)

\* A call's first statement takes the lock.  A thread blocked there differs
\* from an idle one only in the arguments it holds, which no other thread can
\* observe, so calling and acquiring the lock are one step: the *_lock actions
\* take an idle thread to the first line inside the lock.  They also take a
\* thread there that stands blocked inside write() (w73) or read() (r76), which
\* is where call_write and call_read of FairSpec put it.

\* ---- create ----
create_lock(p, t) ==
    /\ pc[p] \in {"idle", "w73"}
    /\ len(store) < MaxLen
    /\ payload' = [payload EXCEPT ![p] = CreateTodo(t)]
    /\ UNCHANGED id
    /\ write_store_ref(p, "c83")

\* line 83: the id is the current number of records plus one
\* variant: the size itself, but never below one
next_id_max(s) == AsI32(IF len(s) = 0 THEN 1 ELSE len(s))

\* variant: the plus one is missing
next_id_len(s) == AsI32(len(s))

next_id(s) == AsI32(len(s) + 1)

create_new(p) ==
    /\ pc[p] = "c83"
    /\ LET i == next_id(store)
       IN  /\ id' = [id EXCEPT ![p] = i]
           /\ todo' = [todo EXCEPT ![p] = Some(Todo_new(i, payload[p].text))]
    /\ pc' = [pc EXCEPT ![p] = "c85"]
    /\ UNCHANGED <<poisoned, scenario, store, wlocked, nreaders, payload, ret,
                   issued, created, deleted, deletedSince, lastCreate>>

create_insert(p) ==
    /\ pc[p] = "c85"
    /\ store' = insert(store, id[p], todo[p][1])
    /\ ret' = [ret EXCEPT ![p] = Some(todo[p][1])]
    /\ issued' = issued \cup {id[p]}
    /\ created' = IF deleted = {} THEN created + 1 ELSE 0
    /\ deletedSince' = {}
    /\ lastCreate' = Some(todo[p][1])
    /\ scenario' = IF len(store) = 0 /\ todo[p][1].text = "buy milk" THEN 1 ELSE 0
    /\ pc' = [pc EXCEPT ![p] = "c86"]
    /\ UNCHANGED <<poisoned, wlocked, nreaders, id, payload, todo, deleted>>

create_return(p) == pc[p] = "c86" /\ drop_write(p)

\* ---- find ----
find_lock(p, i) ==
    /\ pc[p] \in {"idle", "r76"}
    /\ id' = [id EXCEPT ![p] = i]
    /\ UNCHANGED payload
    /\ read_store_ref(p, "f90")

find_get(p) ==
    /\ pc[p] = "f90"
    /\ ret' = [ret EXCEPT ![p] = Some(get(store, id[p]))]
    /\ pc' = [pc EXCEPT ![p] = "f91"]
    /\ UNCHANGED <<poisoned, scenario, store, wlocked, nreaders, id, payload, todo,
                   issued, created, deleted, deletedSince, lastCreate>>

find_return(p) == pc[p] = "f91" /\ drop_read(p)

\* ---- all ----
all_lock(p) ==
    /\ pc[p] \in {"idle", "r76"}
    /\ UNCHANGED <<id, payload>>
    /\ read_store_ref(p, "a94")

all_collect(p) ==
    /\ pc[p] = "a94"
    /\ ret' = [ret EXCEPT ![p] = Some(values(store))]
    /\ pc' = [pc EXCEPT ![p] = "a95"]
    /\ UNCHANGED <<poisoned, scenario, store, wlocked, nreaders, id, payload, todo,
                   issued, created, deleted, deletedSince, lastCreate>>

all_return(p) == pc[p] = "a95" /\ drop_read(p)

\* ---- update ----
update_lock(p, i, t, c) ==
    /\ pc[p] \in {"idle", "w73"}
    /\ id' = [id EXCEPT ![p] = i]
    /\ payload' = [payload EXCEPT ![p] = UpdateTodo(t, c)]
    /\ write_store_ref(p, "u98")

\* lines 101-107: the new Todo built from the old one and the payload
\* variant: an unset completed flips the stored one
merge_toggling(old, i, pl) ==
    Todo(i, unwrap_or(pl.text, old.text),
         IF IsSome(pl.completed) THEN pl.completed[1] ELSE ~old.completed)

\* variant: an unset completed overwrites with false instead of keeping
merge_overwriting(old, i, pl) ==
    Todo(i, unwrap_or(pl.text, old.text), unwrap_or(pl.completed, FALSE))

merge(old, i, pl) ==
    Todo(i, unwrap_or(pl.text, old.text), unwrap_or(pl.completed, old.completed))

update_get(p) ==
    /\ pc[p] = "u98"
    /\ LET found == get(store, id[p])
       IN  IF IsSome(found)
           THEN /\ todo' = [todo EXCEPT ![p] = Some(merge(found[1], id[p], payload[p]))]
                /\ pc' = [pc EXCEPT ![p] = "u108"]
                /\ UNCHANGED <<ret, lastCreate>>
           ELSE /\ ret' = [ret EXCEPT ![p] = Some(Err(NotFound(id[p])))]
                /\ pc' = [pc EXCEPT ![p] = "u110"]
                /\ lastCreate' = None
                /\ UNCHANGED todo
    /\ scenario' = IF /\ scenario = 1
                       /\ id[p] = 1
                       /\ payload[p] = UpdateTodo(None, Some(TRUE))
                    THEN 2 ELSE 0
    /\ UNCHANGED <<poisoned, store, wlocked, nreaders, id, payload,
                   issued, created, deleted, deletedSince>>

update_insert(p) ==
    /\ pc[p] = "u108"
    /\ store' = insert(store, id[p], todo[p][1])
    /\ ret' = [ret EXCEPT ![p] = Some(Ok(todo[p][1]))]
    /\ lastCreate' = None
    /\ pc' = [pc EXCEPT ![p] = "u110"]
    /\ UNCHANGED <<poisoned, scenario, wlocked, nreaders, id, payload, todo,
                   issued, created, deleted, deletedSince>>

update_return(p) == pc[p] = "u110" /\ drop_write(p)

\* lines 97-109 as one call on the map s: the map and the value it leaves
update_applied(s, i, pl) ==
    LET found == get(s, i)
    IN  IF IsSome(found)
        THEN [store |-> insert(s, i, merge(found[1], i, pl)),
              ret |-> Ok(merge(found[1], i, pl))]
        ELSE [store |-> s, ret |-> Err(NotFound(i))]

\* ---- delete ----
delete_lock(p, i) ==
    /\ pc[p] \in {"idle", "w73"}
    /\ id' = [id EXCEPT ![p] = i]
    /\ UNCHANGED payload
    /\ write_store_ref(p, "d113")

\* variant: the result of remove() is ignored
delete_remove_unchecked(p) ==
    /\ pc[p] = "d113"
    /\ store' = remove(store, id[p])
    /\ ret' = [ret EXCEPT ![p] = Some(Ok(Unit))]
    /\ deleted' = deleted \cup {id[p]}
    /\ deletedSince' = deletedSince \cup {id[p]}
    /\ created' = 0
    /\ lastCreate' = None
    /\ scenario' = IF scenario = 2 /\ id[p] = 1 THEN 3 ELSE 0
    /\ pc' = [pc EXCEPT ![p] = "d115"]
    /\ UNCHANGED <<poisoned, wlocked, nreaders, id, payload, todo, issued>>

delete_remove(p) ==
    /\ pc[p] = "d113"
    /\ IF IsSome(get(store, id[p]))
       THEN /\ store' = remove(store, id[p])
            /\ ret' = [ret EXCEPT ![p] = Some(Ok(Unit))]
            /\ deleted' = deleted \cup {id[p]}
            /\ deletedSince' = deletedSince \cup {id[p]}
            /\ created' = 0
       ELSE /\ ret' = [ret EXCEPT ![p] = Some(Err(NotFound(id[p])))]
            /\ UNCHANGED <<store, created, deleted, deletedSince>>
    /\ lastCreate' = None
    /\ scenario' = IF scenario = 2 /\ id[p] = 1 THEN 3 ELSE 0
    /\ pc' = [pc EXCEPT ![p] = "d115"]
    /\ UNCHANGED <<poisoned, wlocked, nreaders, id, payload, todo, issued>>

delete_return(p) == pc[p] = "d115" /\ drop_write(p)

\* ---- the threads ----
create(p) ==
    \/ \E t \in Texts : create_lock(p, t)
    \/ create_new(p)
    \/ create_insert(p)
    \/ create_return(p)

find(p) ==
    \/ \E i \in IdArgs : find_lock(p, i)
    \/ find_get(p)
    \/ find_return(p)

all(p) ==
    \/ all_lock(p)
    \/ all_collect(p)
    \/ all_return(p)

update(p) ==
    \/ \E i \in IdArgs, t \in OptText, c \in OptBool : update_lock(p, i, t, c)
    \/ update_get(p)
    \/ update_insert(p)
    \/ update_return(p)

delete(p) ==
    \/ \E i \in IdArgs : delete_lock(p, i)
    \/ delete_remove(p)
    \/ delete_return(p)

Next ==
    \E p \in Threads :
        \/ create(p)
        \/ find(p)
        \/ all(p)
        \/ update(p)
        \/ delete(p)

Spec == Init /\ [][Next]_vars

\* ---- blocking callers and a fair lock ----
\* a thread calls create, update or delete and blocks inside write() at line 73
call_write(p) ==
    /\ pc[p] = "idle"
    /\ pc' = [pc EXCEPT ![p] = "w73"]
    /\ UNCHANGED <<store, wlocked, nreaders, poisoned, id, payload, todo, ret,
                   issued, created, deleted, deletedSince, lastCreate, scenario>>

\* a thread calls find or all and blocks inside read() at line 76
call_read(p) ==
    /\ pc[p] = "idle"
    /\ pc' = [pc EXCEPT ![p] = "r76"]
    /\ UNCHANGED <<store, wlocked, nreaders, poisoned, id, payload, todo, ret,
                   issued, created, deleted, deletedSince, lastCreate, scenario>>

Blocked == {"w73", "r76"}

\* the steps of thread p once it holds the lock
Inside(p) ==
    \/ create_new(p) \/ create_insert(p) \/ create_return(p)
    \/ find_get(p) \/ find_return(p)
    \/ all_collect(p) \/ all_return(p)
    \/ update_get(p) \/ update_insert(p) \/ update_return(p)
    \/ delete_remove(p) \/ delete_return(p)

NextFair ==
    \/ Next
    \/ \E p \in Threads : call_write(p)
    \/ \E p \in Threads : call_read(p)

\* a fair lock: a thread blocked in write() or read() is eventually granted it
FairLock == \A p \in Threads : (pc[p] \in Blocked) ~> (pc[p] \notin Blocked)

\* threads keep running (no operation suspends or blocks once it has the lock)
FairSpec ==
    /\ Init /\ [][NextFair]_vars
    /\ \A p \in Threads : WF_vars(Inside(p))
    /\ FairLock

\* ---- abnormal termination ----
\* A thread panics while it holds a guard (an allocation in clone(), insert()
\* or from_iter() can): unwinding drops its locals and its guard.  Dropping a
\* write guard while panicking poisons the RwLock; dropping a read guard does
\* not.  The thread is gone afterwards.
panic(p) ==
    /\ pc[p] \in WriteCS \cup ReadCS
    /\ IF pc[p] \in WriteCS
       THEN /\ wlocked' = FALSE
            /\ poisoned' = TRUE
            /\ UNCHANGED nreaders
       ELSE /\ nreaders' = nreaders - 1
            /\ UNCHANGED <<wlocked, poisoned>>
    /\ pc' = [pc EXCEPT ![p] = "panic"]
    /\ id' = [id EXCEPT ![p] = 0]
    /\ payload' = [payload EXCEPT ![p] = NoPayload]
    /\ todo' = [todo EXCEPT ![p] = None]
    /\ ret' = [ret EXCEPT ![p] = None]
    /\ UNCHANGED <<store, issued, created, deleted, deletedSince, lastCreate,
                   scenario>>

\* create, update or delete called on a poisoned lock: write() gets the lock
\* and returns Err, unwrap() at line 73 panics, the guard in the error is dropped
write_poisoned(p) ==
    /\ pc[p] = "idle"
    /\ CanWrite
    /\ poisoned
    /\ pc' = [pc EXCEPT ![p] = "unwrap73"]
    /\ UNCHANGED <<store, wlocked, nreaders, poisoned, id, payload, todo, ret,
                   issued, created, deleted, deletedSince, lastCreate, scenario>>

\* find or all called on a poisoned lock: unwrap() at line 76 panics
read_poisoned(p) ==
    /\ pc[p] = "idle"
    /\ CanRead
    /\ poisoned
    /\ pc' = [pc EXCEPT ![p] = "unwrap76"]
    /\ UNCHANGED <<store, wlocked, nreaders, poisoned, id, payload, todo, ret,
                   issued, created, deleted, deletedSince, lastCreate, scenario>>

NextPanic ==
    \/ Next
    \/ \E p \in Threads : panic(p)
    \/ \E p \in Threads : write_poisoned(p)
    \/ \E p \in Threads : read_poisoned(p)

PanicSpec == Init /\ [][NextPanic]_vars

TypeOK ==
    /\ DOMAIN store \subseteq IdArgs
    /\ wlocked \in BOOLEAN
    /\ nreaders \in 0..NumThreads
    /\ poisoned \in BOOLEAN
    /\ issued \subseteq IdArgs
    /\ created \in 0..MaxLen
    /\ scenario \in 0..3

\* ---- properties ----

\* thread p takes the step from line `from` to line `to`
Step(p, from, to) == pc[p] = from /\ pc'[p] = to

\* no two elements of the Vec v carry the same id
DistinctIds(v) ==
    /\ \A t \in BagToSet(v) : CopiesIn(t, v) = 1
    /\ \A t, u \in BagToSet(v) : t # u => t.id # u.id

\* C1: over any sequence of create, update and delete calls, create never
\* returns an id that an earlier create call on the same store returned.
C1_IdNeverReused ==
    [][\A p \in Threads :
          Step(p, "c85", "c86") => ret'[p][1].id \notin issued]_vars

\* C2: create adds exactly one record and leaves every previously stored
\* record present and unchanged; a stored record is changed only by update
\* with its id and removed only by delete with its id.
C2_CreateAddsOneRecord ==
    [][/\ \A p \in Threads :
             Step(p, "c85", "c86") =>
                 /\ len(store') = len(store) + 1
                 /\ \A k \in DOMAIN store : get(store', k) = get(store, k)
       /\ \A k \in DOMAIN store :
             /\ k \notin DOMAIN store' =>
                    \E p \in Threads : Step(p, "d113", "d115") /\ id[p] = k
             /\ (k \in DOMAIN store' /\ store'[k] # store[k]) =>
                    \E p \in Threads : Step(p, "u108", "u110") /\ id[p] = k
      ]_vars

\* C3: create(p) returns a Todo with completed = false and text = p.text, and
\* a find on the returned id issued right after returns an equal record.
C3_CreateThenFind ==
    /\ [](\A p \in Threads :
             pc[p] = "c86" =>
                 /\ ret[p][1].completed = FALSE
                 /\ ret[p][1].text = payload[p].text)
    /\ [][\A p \in Threads :
             (Step(p, "f90", "f91") /\ IsSome(lastCreate)
                 /\ id[p] = lastCreate[1].id) =>
                 ret'[p] = Some(Some(lastCreate[1]))]_vars

C3_Witness ==
    \E p \in Threads :
        /\ pc[p] = "f91"
        /\ IsSome(lastCreate)
        /\ id[p] = lastCreate[1].id
        /\ ret[p] = Some(Some(lastCreate[1]))
        /\ len(store) >= 2

\* C4: from an empty store, after N successful creates and no delete (updates
\* allowed), all() returns exactly N records with pairwise distinct ids.
C4_AllAfterCreates ==
    \A p \in Threads :
        (pc[p] = "a95" /\ deleted = {}) =>
            /\ BagCardinality(ret[p][1]) = created
            /\ DistinctIds(ret[p][1])

C4_Witness ==
    \E p \in Threads :
        /\ pc[p] = "a95"
        /\ deleted = {}
        /\ created >= 2
        /\ BagCardinality(ret[p][1]) = created
        /\ \E k \in DOMAIN store : store[k].completed

\* C5: concurrent creates against an initially empty store, synchronised only
\* by the lock, receive pairwise different ids, and every created record is in
\* the store and in what all() returns (no lost write, no duplicate id).
C5_ConcurrentCreates ==
    deleted = {} =>
        /\ Cardinality(issued) = created
        /\ len(store) = created
        /\ issued = DOMAIN store
        /\ \A p \in Threads :
              pc[p] = "a95" =>
                  \A i \in issued :
                      \E t \in BagToSet(ret[p][1]) : t.id = i

\* the second create on an empty store is returning id 2, no delete so far
C5_Witness ==
    \E p \in Threads :
        /\ pc[p] = "c86"
        /\ deleted = {}
        /\ created = 2
        /\ ret[p][1].id = 2
        /\ DOMAIN store = {1, 2}

\* C6: update on an existing record merges: the stored and returned record
\* keeps its id, takes payload.text when set and the old text otherwise, and
\* payload.completed when set and the old completed otherwise.
C6_UpdateMerges ==
    [][\A p \in Threads :
          Step(p, "u108", "u110") =>
              LET old == store[id[p]]
                  new == store'[id[p]]
              IN  /\ ret'[p] = Some([ok |-> Some(new), err |-> None])
                  /\ new.id = id[p]
                  /\ new.id = old.id
                  /\ new.text = IF payload[p].text = None
                                THEN old.text ELSE payload[p].text[1]
                  /\ new.completed = IF payload[p].completed = None
                                     THEN old.completed
                                     ELSE payload[p].completed[1]
      ]_vars

\* an update with only text set has returned: the text changed, completed kept
C6_Witness ==
    \E p \in Threads :
        /\ pc[p] = "u110"
        /\ IsSome(ret[p][1].ok)
        /\ payload[p] = UpdateTodo(Some("b"), None)
        /\ store[id[p]] = Todo(id[p], "b", TRUE)

\* C7: update and delete with an id that has no record return NotFound(id)
\* and leave the whole store unchanged.
C7_NotFoundLeavesStore ==
    [][\A p \in Threads :
          /\ ((Step(p, "u98", "u108") \/ Step(p, "u98", "u110")
                 \/ Step(p, "d113", "d115")) /\ id[p] \notin DOMAIN store) =>
                 /\ ret'[p] = Some([ok |-> None,
                                    err |-> Some([kind |-> "NotFound",
                                                  id |-> id[p]])])
                 /\ pc'[p] \in {"u110", "d115"}
                 /\ store' = store
          /\ ((Step(p, "u110", "idle") \/ Step(p, "d115", "idle"))
                 /\ IsSome(ret[p][1].err)) =>
                 /\ store' = store
                 /\ id[p] \notin DOMAIN store
      ]_vars

\* a second delete of an id is returning NotFound on a non-empty store
C7_Witness ==
    /\ \E p \in Threads :
          /\ pc[p] = "d115"
          /\ ret[p] = Some(Err(NotFound(id[p])))
          /\ store # EmptyStore
          /\ id[p] \notin DOMAIN store
          /\ id[p] \in deleted

\* C8: after a successful delete(id), with no create in between, find(id)
\* returns None, all() has no record with that id, and a second delete(id)
\* returns NotFound(id).
C8_DeletedStaysAbsent ==
    [][\A p \in Threads :
          /\ (Step(p, "f90", "f91") /\ id[p] \in deletedSince) =>
                 ret'[p] = Some(None)
          /\ Step(p, "a94", "a95") =>
                 \A t \in BagToSet(ret'[p][1]) : t.id \notin deletedSince
          /\ (Step(p, "d113", "d115") /\ id[p] \in deletedSince) =>
                 ret'[p] = Some(Err(NotFound(id[p])))
      ]_vars

\* a find of a deleted id returns None while another record is still stored
C8_Witness ==
    \E p \in Threads :
        /\ pc[p] = "f91"
        /\ id[p] \in deletedSince
        /\ ret[p] = Some(None)
        /\ store # EmptyStore

\* C9: each key of the mapping maps to a Todo whose id field equals that key,
\* so no two stored Todos share an id.
C9_KeyIsId ==
    /\ \A k \in DOMAIN store : store[k].id = k
    /\ \A j, k \in DOMAIN store : j # k => store[j].id # store[k].id

\* two records remain after a create, an update and a delete have all acted
C9_Witness ==
    /\ len(store) >= 2
    /\ deleted # {}
    /\ \E k \in DOMAIN store : store[k].completed

\* C10: no two of create/update/delete are inside their critical section at
\* once, and none is inside it while a find or all is inside its own; several
\* find/all may be inside theirs together.
C10_MutualExclusion ==
    \A p, q \in Threads :
        p # q =>
            /\ ~(pc[p] \in WriteCS /\ pc[q] \in WriteCS)
            /\ ~(pc[p] \in WriteCS /\ pc[q] \in ReadCS)

\* a find and an all hold the lock together
C10_Witness ==
    \E p, q \in Threads :
        /\ p # q
        /\ pc[p] \in {"f90", "f91"}
        /\ pc[q] \in {"a94", "a95"}
        /\ nreaders = 2

\* C11: update's lookup, merge and store are one atomic step under the write
\* lock: the record an update is about to store is the merge of the record
\* stored now (no update is lost), and what a find or all holds is what is
\* stored now (never a record of an unfinished mutation).
C11_UpdateAtomic ==
    \A p \in Threads :
        /\ pc[p] = "u108" =>
               /\ id[p] \in DOMAIN store
               /\ todo[p][1].text = IF payload[p].text = None
                                    THEN store[id[p]].text
                                    ELSE payload[p].text[1]
               /\ todo[p][1].completed = IF payload[p].completed = None
                                         THEN store[id[p]].completed
                                         ELSE payload[p].completed[1]
        /\ pc[p] = "f91" =>
               ret[p][1] = IF id[p] \in DOMAIN store
                           THEN <<store[id[p]]>> ELSE <<>>
        /\ pc[p] = "a95" =>
               \A t \in BagToSet(ret[p][1]) :
                   \E k \in DOMAIN store : store[k] = t

\* an update of completed only has stored its record on top of a text "b",
\* while a second record is stored
C11_Witness ==
    \E p \in Threads :
        /\ pc[p] = "u110"
        /\ payload[p] = UpdateTodo(None, Some(TRUE))
        /\ IsSome(ret[p][1].ok)
        /\ ret[p][1].ok[1] = Todo(id[p], "b", TRUE)
        /\ store[id[p]] = Todo(id[p], "b", TRUE)
        /\ len(store) = 2
\* C12: on an empty store create({text: "buy milk"}) returns {1, "buy milk",
\* false}; then update(1, {completed: Some(true)}) returns {1, "buy milk",
\* true}; then delete(1) succeeds; then find(1) returns None.
C12_Scenario ==
    \A p \in Threads :
        /\ (pc[p] = "c86" /\ scenario = 1) =>
               ret[p] = Some(Todo(1, "buy milk", FALSE))
        /\ (pc[p] = "u110" /\ scenario = 2) =>
               ret[p] = Some([ok |-> Some(Todo(1, "buy milk", TRUE)),
                              err |-> None])
        /\ (pc[p] = "d115" /\ scenario = 3) =>
               ret[p] = Some([ok |-> Some(Unit), err |-> None])
        /\ (pc[p] = "f91" /\ scenario = 3 /\ id[p] = 1) =>
               ret[p] = Some(None)

\* the whole scenario has run: the find(1) after the delete is returning
C12_Witness ==
    \E p \in Threads :
        /\ pc[p] = "f91"
        /\ scenario = 3
        /\ id[p] = 1
        /\ ret[p] = Some(None)
        /\ store = EmptyStore
\* C13: after at least one delete a later create can return the id of a record
\* deleted earlier.  Every create returns the record count plus one, so it
\* returns a deleted id whenever that id is the count plus one; it returns an
\* id that was returned before only after some delete.  The witness is the
\* reachable state in which create hands out a deleted id.
C13_ReusesDeletedId ==
    [][\A p \in Threads :
          Step(p, "c85", "c86") =>
              /\ ret'[p][1].id = len(store) + 1
              /\ (len(store) + 1 \in deleted) => ret'[p][1].id \in deleted
              /\ ret'[p][1].id \in issued => deleted # {}
      ]_vars

\* create is returning an id that a successful delete removed earlier
C13_Witness ==
    \E p \in Threads :
        /\ pc[p] = "c86"
        /\ ret[p][1].id \in deleted
        /\ ret[p][1].id \in DOMAIN store
\* C16: find and all are read-only and never fail: each returns a value (find
\* the record stored under the id or None, all exactly the stored records) and
\* no step of theirs changes the mapping.
C16_ReadsAreReadOnly ==
    /\ [](\A p \in Threads : pc[p] \in {"f91", "a95"} => IsSome(ret[p]))
    /\ [][\A p \in Threads :
             /\ ((pc[p] \in ReadCS \/ pc'[p] \in ReadCS) /\ pc'[p] # pc[p]) =>
                    store' = store
             /\ Step(p, "f90", "f91") =>
                    ret'[p] = Some(IF id[p] \in DOMAIN store
                                   THEN <<store[id[p]]>> ELSE <<>>)
             /\ Step(p, "a94", "a95") =>
                    /\ BagToSet(ret'[p][1]) = {store[k] : k \in DOMAIN store}
                    /\ BagCardinality(ret'[p][1]) = len(store)
             /\ pc[p] = "f90" => pc'[p] \in {"f90", "f91"}
             /\ pc[p] = "a94" => pc'[p] \in {"a94", "a95"}
             /\ pc[p] \in {"f91", "a95"} => pc'[p] \in {pc[p], "idle"}
      ]_vars

\* an all() is returning both stored records
C16_Witness ==
    \E p \in Threads :
        /\ pc[p] = "a95"
        /\ len(store) = 2
        /\ BagCardinality(ret[p][1]) = 2
        /\ \A k \in DOMAIN store : BagIn(store[k], ret[p][1])

\* C17: a successful update leaves the key set and every record with another
\* id unchanged; a successful delete removes exactly its key and leaves every
\* record with another id unchanged.
C17_WritesTouchOneKey ==
    [][\A p \in Threads :
          /\ Step(p, "u108", "u110") =>
                 /\ DOMAIN store' = DOMAIN store
                 /\ \A k \in DOMAIN store \ {id[p]} : store'[k] = store[k]
          /\ (Step(p, "d113", "d115") /\ id[p] \in DOMAIN store) =>
                 /\ DOMAIN store' = DOMAIN store \ {id[p]}
                 /\ \A k \in DOMAIN store' : store'[k] = store[k]
      ]_vars

\* a delete has succeeded and the other record is still stored
C17_Witness ==
    \E p \in Threads :
        /\ pc[p] = "d115"
        /\ IsSome(ret[p][1].ok)
        /\ id[p] \notin DOMAIN store
        /\ len(store) = 1

\* C18: update with an all-unset payload leaves the store unchanged and returns
\* the stored record; applying the payload of an update once more leaves the
\* store and the returned record as the first application left them: an update
\* of a record that already carries every set field of the payload (as it does
\* after a first application) changes nothing and returns that record.
C18_UpdateIdempotent ==
    [][\A p \in Threads :
          Step(p, "u108", "u110") =>
              /\ payload[p] = [text |-> <<>>, completed |-> <<>>] =>
                     /\ store' = store
                     /\ ret'[p] = Some([ok |-> Some(store[id[p]]), err |-> None])
              /\ LET again == update_applied(store', id[p], payload[p])
                 IN  /\ again.store = store'
                     /\ again.ret = ret'[p][1]
              /\ ( /\ payload[p].text \in {<<>>, <<store[id[p]].text>>}
                   /\ payload[p].completed \in {<<>>, <<store[id[p]].completed>>} ) =>
                     /\ store' = store
                     /\ ret'[p] = Some([ok |-> Some(store[id[p]]), err |-> None])
      ]_vars

\* an update with an all-unset payload is returning a completed record
C18_Witness ==
    \E p \in Threads :
        /\ pc[p] = "u110"
        /\ payload[p] = NoPayload
        /\ IsSome(ret[p][1].ok)
        /\ ret[p][1].ok[1].completed
        /\ store[id[p]] = ret[p][1].ok[1]
\* once the lock is poisoned: no thread is inside an operation or returning a
\* value (so none returns NotFound), every call ends in the panic of unwrap()
\* at the acquisition, and the mapping is neither read nor changed
PoisonedFailsLoudly ==
    /\ [](poisoned =>
             \A p \in Threads :
                 /\ pc[p] \in {"idle", "panic", "unwrap73", "unwrap76"}
                 /\ ret[p] = None)
    /\ [][poisoned =>
             /\ poisoned'
             /\ store' = store
             /\ \A p \in Threads :
                    pc'[p] \in {pc[p], "unwrap73", "unwrap76"}
      ]_vars

\* C15 as claimed: a caller that terminates abnormally while it holds the
\* store lock, shared or exclusive, poisons it, and every later operation
\* panics at lock acquisition without reading or changing the mapping.
C15_AnyHolderPoisons ==
    /\ [][\A p \in Threads :
             (pc[p] \in WriteCS \cup ReadCS /\ pc'[p] = "panic") => poisoned'
      ]_vars
    /\ PoisonedFailsLoudly

\* C15 amended: a caller that terminates abnormally inside create, update or
\* delete (write guard) poisons the lock, and every later operation panics at
\* lock acquisition without reading or changing the mapping, never returning
\* NotFound; one that terminates inside find or all (read guard) leaves the
\* lock as it was.
C15_WriterPoisons ==
    /\ [][\A p \in Threads :
             /\ (pc[p] \in WriteCS /\ pc'[p] = "panic") => poisoned'
             /\ (pc[p] \in ReadCS /\ pc'[p] = "panic") => poisoned' = poisoned
      ]_vars
    /\ PoisonedFailsLoudly

\* after a panic inside a write operation a later find or all has panicked at
\* the acquisition, with a record still stored
C15_Witness ==
    /\ poisoned
    /\ store # EmptyStore
    /\ \E p, q \in Threads :
          /\ pc[p] = "panic"
          /\ pc[q] = "unwrap76"
\* C14: every operation takes the store lock exactly once, holds no other lock
\* and releases it when it returns: the lock is held by exactly the threads
\* inside an operation.  With a fair lock there is no deadlock (some thread
\* that has started an operation can always take a step) and every started
\* operation eventually returns.
C14_EveryCallReturns ==
    /\ [](/\ wlocked <=> (\E p \in Threads : pc[p] \in WriteCS)
          /\ nreaders = Cardinality({p \in Threads : pc[p] \in ReadCS})
          /\ Cardinality({p \in Threads : pc[p] \in WriteCS}) <= 1)
    /\ []((\E p \in Threads : pc[p] # "idle") =>
             ENABLED (\E p \in Threads : pc[p] # "idle" /\
                         (create(p) \/ find(p) \/ all(p) \/ update(p) \/ delete(p))))
    /\ \A p \in Threads : (pc[p] # "idle") ~> (pc[p] = "idle")

\* a writer stands blocked in write() while a reader holds the lock
C14_Witness ==
    \E p, q \in Threads :
        /\ pc[p] = "w73"
        /\ pc[q] \in ReadCS
        /\ nreaders = 1
        /\ ~wlocked
====
